---- MODULE Spec2Model ----
(***************************************************************************)
(* Model of src/main.py: a Flask application over a SQLite store with four  *)
(* tables (User, Case, Suspect, Evidence) and a persisted classifier       *)
(* bundle (ml_model.pkl).  One action per request handler.  Spec runs the   *)
(* handlers one after the other; SpecConc splits add_evidence and          *)
(* delete_case into their two persistence calls and interleaves them;      *)
(* SpecPredict runs the prediction service over the stores inserts build.  *)
(*                                                                         *)
(* Python values: None in a text column is the string "None"; a JSON       *)
(* object is a function from its keys to values; a request without a JSON  *)
(* body (request.get_json() = None) is the value NoJSON.                   *)
(***************************************************************************)
EXTENDS Integers, FiniteSets, Sequences, TLC

\* ------------------------------------------------------------------ bounds
\* the largest id each table gives out: an insert that would pass it is not
\* taken
MaxCases == 2
MaxEvidence == 2
MaxSuspects == 1

\* ------------------------------------------------------------ input domains
None == "None"
NoJSON == [nojson |-> TRUE]
NoBundle == [absent |-> TRUE]
NoReq == [idle |-> TRUE]

Usernames == {"a"}
\* category strings, listed in lexicographic order (the order of sorted())
CrimeTypes == <<"arson", "fraud", "theft">>
Locations == <<"downtown", "harbor">>
Times == <<"day", "night">>
Range(s) == {s[i] : i \in DOMAIN s}

\* path parameters <int:...>: every id a table can hold and one beyond
CaseIds == 1..(MaxCases + 1)
EvidenceIds == 1..(MaxEvidence + 1)
SuspectIds == 1..(MaxSuspects + 1)

CaseVal(k) == IF k = "crime_type" THEN "theft"
              ELSE IF k = "location" THEN "downtown"
              ELSE IF k = "time_of_day" THEN "night"
              ELSE "Closed"
\* bodies of /add_case: no JSON, {}, and objects with none or all of the three
\* fields, with and without a client-supplied status
CaseBodies ==
    {NoJSON}
    \cup {[k \in ks |-> CaseVal(k)] :
            ks \in {{}, {"status"},
                    {"crime_type", "location", "time_of_day"},
                    {"crime_type", "location", "time_of_day", "status"}}}

\* bodies of /add_evidence: no JSON, {}, an object without case_id, and full
\* objects with every case_id (0 included)
EvidenceBodies ==
    {NoJSON, <<>>, [evidence_type |-> "fingerprint", description |-> "glass"]}
    \cup {[case_id |-> c, evidence_type |-> "fingerprint", description |-> "glass"] :
            c \in {0} \cup CaseIds}

\* bodies of /register and /add_suspect: no JSON, an object missing a
\* required key, and full objects
RegisterBodies ==
    {NoJSON, [username |-> "a", password |-> "p"]}
    \cup {[username |-> u, password |-> "p", role |-> "admin"] : u \in Usernames}
SuspectBodies ==
    {NoJSON, [name |-> "x"], [name |-> "x", criminal_history |-> "none"]}

\* bodies of /predict_suspect: no JSON, an object missing a key and every
\* full triple of categories
PredictBodies ==
    {NoJSON, [crime_type |-> "theft", location |-> "downtown"]}
    \cup {[crime_type |-> c, location |-> l, time_of_day |-> t] :
            c \in Range(CrimeTypes), l \in Range(Locations), t \in Range(Times)}

\* ------------------------------------------------------------------- state
VARIABLES
    phase,      \* "boot" before the process serves requests, then "serving"
    users,      \* table user
    cases,      \* table case
    suspects,   \* table suspect
    evidences,  \* table evidence
    bundle,     \* contents of ml_model.pkl, or NoBundle when the file is absent
    resp,       \* the response of the last request
    ae,         \* add_evidence in flight between its two persistence calls
    dc          \* delete_case in flight between its two persistence calls

vars == <<phase, users, cases, suspects, evidences, bundle, resp, ae, dc>>
store == <<users, cases, suspects, evidences>>

\* ------------------------------------------------------ persistence helpers
Max(S) == CHOOSE m \in S : \A x \in S : x <= m
\* id of an inserted row: an INTEGER PRIMARY KEY column of SQLite takes one
\* more than the largest id in the table
NextId(table) == IF table = {} THEN 1 ELSE Max({r.id : r \in table}) + 1
\* Model.query.get(id): the rows with that primary key (none or one)
QueryGet(table, id) == {r \in table : r.id = id}
\* Evidence.query.filter_by(case_id=...).all()
FilterByCase(case_id) == {e \in evidences : e.case_id = case_id}

\* ---------------------------------------------------------- python helpers
\* dict.get(key): the value, or None when the key is absent
Get(data, k) == IF k \in DOMAIN data THEN data[k] ELSE None
\* `not data` of a request body: None and the empty object are both falsy
NotData(data) == data = NoJSON \/ DOMAIN data = {}
\* data[key] raises TypeError on None and KeyError on a missing key
Subscriptable(data, keys) == data # NoJSON /\ keys \subseteq DOMAIN data
Json(status, key, body) == [status |-> status, key |-> key, body |-> body]
\* an exception that leaves the handler: the framework answers 500
Fault(exc) == [status |-> 500, key |-> "fault", body |-> exc]

\* ------------------------------------------------------------- ML training
\* rows of training_data.csv (crime_type, location, time_of_day, suspect)
training_data ==
    << [crime_type |-> "theft", location |-> "downtown", time_of_day |-> "night",
        suspect |-> "B"],
       [crime_type |-> "arson", location |-> "downtown", time_of_day |-> "night",
        suspect |-> "A"] >>
Column(data, col) == {data[i][col] : i \in DOMAIN data}
\* LabelEncoder.fit: classes_ are the distinct values in sorted order
Fit(order, values) == SelectSeq(order, LAMBDA x : x \in values)
\* LabelEncoder.transform of one value: its index in classes_, 0-based;
\* -1 stands for the ValueError raised on a value not in classes_
TransformAnyway(le, x) == IF \E i \in DOMAIN le : le[i] = x
                          THEN (CHOOSE i \in DOMAIN le : le[i] = x) - 1
                          ELSE 0
Transform(le, x) == IF \E i \in DOMAIN le : le[i] = x
                    THEN (CHOOSE i \in DOMAIN le : le[i] = x) - 1
                    ELSE -1
\* train_model(): the tuple dumped to ml_model.pkl.  The fitted forest is
\* kept as its classes_ (the labels of column suspect).
train_model ==
    [le_crime |-> Fit(CrimeTypes, Column(training_data, "crime_type")),
     le_location |-> Fit(Locations, Column(training_data, "location")),
     le_time |-> Fit(Times, Column(training_data, "time_of_day")),
     model |-> [classes |-> Column(training_data, "suspect")]]
\* model.predict(input_data): an unseeded random forest may answer any
\* label it was trained on
Predict(model, input_data) == model.classes

\* ------------------------------------------------------------------ start
NoResponse == Json(0, "none", None)

\* crime.db is new; ml_model.pkl may be left from an earlier run
Init ==
    /\ phase = "boot"
    /\ users = {} /\ cases = {} /\ suspects = {} /\ evidences = {}
    /\ bundle \in {NoBundle, train_model}
    /\ resp = NoResponse
    /\ ae = NoReq /\ dc = NoReq

\* python main.py: create the tables, train when ml_model.pkl is absent, run
main ==
    /\ phase = "boot"
    /\ phase' = "serving"
    /\ bundle' = IF bundle = NoBundle THEN train_model ELSE bundle
    /\ UNCHANGED <<store, resp, ae, dc>>

\* the module imported by a WSGI runner (__name__ is not '__main__'): the
\* block at the end of the file is skipped and no training happens
imported ==
    /\ phase = "boot"
    /\ phase' = "serving"
    /\ UNCHANGED <<store, bundle, resp, ae, dc>>

\* a handler that answers r and writes nothing
Answer(r) == resp' = r /\ UNCHANGED <<phase, store, bundle, ae, dc>>

\* -------------------------------------------------------- user management
UserRow(data) ==
    [id |-> NextId(users), username |-> data["username"],
     password |-> data["password"], role |-> data["role"]]

\* POST /register.  commit() raises IntegrityError on a stored username
\* (unique=True); nothing catches it and the session is rolled back.
register(data) ==
    /\ phase = "serving"
    /\ IF ~Subscriptable(data, {"username", "password", "role"})
       THEN Answer(Fault(IF data = NoJSON THEN "TypeError" ELSE "KeyError"))
       ELSE IF \E u \in users : u.username = data["username"]
       THEN Answer(Fault("IntegrityError"))
       ELSE /\ users' = users \cup {UserRow(data)}
            /\ resp' = Json(200, "message", "User registered successfully")
            /\ UNCHANGED <<phase, cases, suspects, evidences, bundle, ae, dc>>

\* -------------------------------------------------------- case management
CaseRowStatusFromBody(data) ==
    [id |-> NextId(cases), crime_type |-> Get(data, "crime_type"),
     location |-> Get(data, "location"), time_of_day |-> Get(data, "time_of_day"),
     status |-> IF "status" \in DOMAIN data THEN data["status"] ELSE "Open"]
CaseRow(data) ==
    [id |-> NextId(cases), crime_type |-> Get(data, "crime_type"),
     location |-> Get(data, "location"), time_of_day |-> Get(data, "time_of_day"),
     status |-> "Open"]

\* POST /add_case
add_case(data) ==
    /\ phase = "serving"
    /\ IF NotData(data)
       THEN Answer(Json(200, "error", "No JSON received"))
       ELSE /\ NextId(cases) <= MaxCases
            /\ cases' = cases \cup {CaseRow(data)}
            /\ resp' = Json(200, "message", "Case added successfully")
            /\ UNCHANGED <<phase, users, suspects, evidences, bundle, ae, dc>>

\* the Evidence rows deleted with a Case: relationship(cascade="all, delete")
NoCascade(case_id) == {}
Cascade(case_id) == {e \in evidences : e.case_id = case_id}

\* delete_case up to its first persistence call: Case.query.get and the test
delete_case_lookup(case_id) ==
    IF QueryGet(cases, case_id) = {}
    THEN Json(200, "error", "Case not found")
    ELSE NoReq
\* db.session.delete(case); db.session.commit()
delete_case_commit(case_id) ==
    /\ cases' = cases \ QueryGet(cases, case_id)
    /\ evidences' = evidences \ Cascade(case_id)
    /\ resp' = Json(200, "message", "Case deleted successfully")

\* DELETE /delete_case/<case_id>
delete_case(case_id) ==
    /\ phase = "serving"
    /\ IF delete_case_lookup(case_id) # NoReq
       THEN Answer(delete_case_lookup(case_id))
       ELSE /\ delete_case_commit(case_id)
            /\ UNCHANGED <<phase, users, suspects, bundle, ae, dc>>

\* ----------------------------------------------------- suspect management
\* POST /add_suspect
add_suspect(data) ==
    /\ phase = "serving"
    /\ IF ~Subscriptable(data, {"name", "criminal_history"})
       THEN Answer(Fault(IF data = NoJSON THEN "TypeError" ELSE "KeyError"))
       ELSE /\ NextId(suspects) <= MaxSuspects
            /\ suspects' = suspects \cup
                 {[id |-> NextId(suspects), name |-> data["name"],
                   criminal_history |-> data["criminal_history"]]}
            /\ resp' = Json(200, "message", "Suspect added successfully")
            /\ UNCHANGED <<phase, users, cases, evidences, bundle, ae, dc>>

\* DELETE /delete_suspect/<suspect_id>
delete_suspect(suspect_id) ==
    /\ phase = "serving"
    /\ IF QueryGet(suspects, suspect_id) = {}
       THEN Answer(Json(200, "error", "Suspect not found"))
       ELSE /\ suspects' = suspects \ QueryGet(suspects, suspect_id)
            /\ resp' = Json(200, "message", "Suspect deleted successfully")
            /\ UNCHANGED <<phase, users, cases, evidences, bundle, ae, dc>>

\* ---------------------------------------------------- evidence management
\* add_evidence up to its first persistence call: the checks of the body and
\* Case.query.get(case_id).  `not case_id` holds for a missing key and for 0.
add_evidence_lookup_unchecked(data) ==
    IF NotData(data)
    THEN Json(400, "error", "No data provided")
    ELSE IF "case_id" \notin DOMAIN data \/ data["case_id"] = 0
    THEN Json(400, "error", "case_id is required")
    ELSE NoReq
add_evidence_lookup(data) ==
    IF NotData(data)
    THEN Json(400, "error", "No data provided")
    ELSE IF "case_id" \notin DOMAIN data \/ data["case_id"] = 0
    THEN Json(400, "error", "case_id is required")
    ELSE IF QueryGet(cases, data["case_id"]) = {}
    THEN Json(404, "error", "Case not found")
    ELSE NoReq
\* the Evidence(...) the handler builds, before the store gives it an id
new_evidence(data) ==
    [case_id |-> data["case_id"], evidence_type |-> Get(data, "evidence_type"),
     description |-> Get(data, "description")]
\* db.session.add(new_evidence); db.session.commit().  The foreign key of
\* case_id is declared but SQLite does not check it unless the connection
\* sets PRAGMA foreign_keys, which the application never does.
add_evidence_commit(ev) ==
    /\ evidences' = evidences \cup
         {[id |-> NextId(evidences), case_id |-> ev.case_id,
           evidence_type |-> ev.evidence_type, description |-> ev.description]}
    /\ resp' = Json(200, "message", "Evidence added successfully")

\* POST /add_evidence
add_evidence(data) ==
    /\ phase = "serving"
    /\ IF add_evidence_lookup(data) # NoReq
       THEN Answer(add_evidence_lookup(data))
       ELSE /\ NextId(evidences) <= MaxEvidence
            /\ add_evidence_commit(new_evidence(data))
            /\ UNCHANGED <<phase, users, cases, suspects, bundle, ae, dc>>

\* GET /view_evidence/<case_id>
view_evidence(case_id) ==
    /\ phase = "serving"
    /\ Answer(Json(200, "list", FilterByCase(case_id)))

\* DELETE /delete_evidence/<evidence_id>
delete_evidence(evidence_id) ==
    /\ phase = "serving"
    /\ IF QueryGet(evidences, evidence_id) = {}
       THEN Answer(Json(200, "error", "Evidence not found"))
       ELSE /\ evidences' = evidences \ QueryGet(evidences, evidence_id)
            /\ resp' = Json(200, "message", "Evidence deleted successfully")
            /\ UNCHANGED <<phase, users, cases, suspects, bundle, ae, dc>>

\* ------------------------------------------------- ML suspect prediction
\* the three transform calls inside the try: a missing body or key and an
\* unseen category all raise, and the bare except answers for all of them
Encoded(b, data) ==
    IF ~Subscriptable(data, {"crime_type", "location", "time_of_day"})
    THEN <<-1, -1, -1>>
    ELSE <<Transform(b.le_crime, data["crime_type"]),
           Transform(b.le_location, data["location"]),
           Transform(b.le_time, data["time_of_day"])>>

\* the responses predict_suspect can give to a body
predict_unchecked(data) ==
    IF bundle = NoBundle
    THEN {Fault("FileNotFoundError")}
    ELSE LET input_data == Encoded(bundle, data)
         IN  IF \E i \in 1..3 : input_data[i] = -1
             THEN {Json(200, "error", "Invalid input values")}
             ELSE {Json(200, "suspect_likely", l) :
                     l \in Predict(bundle.model, input_data)}
predict(data) ==
    IF bundle = NoBundle
    THEN {Json(200, "error", "ML model not trained")}
    ELSE LET input_data == Encoded(bundle, data)
         IN  IF \E i \in 1..3 : input_data[i] = -1
             THEN {Json(200, "error", "Invalid input values")}
             ELSE {Json(200, "suspect_likely", l) :
                     l \in Predict(bundle.model, input_data)}

\* POST /predict_suspect
predict_suspect(data) ==
    /\ phase = "serving"
    /\ \E r \in predict(data) : Answer(r)

\* ------------------------------------------------------------------ report
report_body_lowercase ==
    [total_cases |-> Cardinality(cases),
     open_cases |-> Cardinality({c \in cases : c.status = "open"}),
     total_suspects |-> Cardinality(suspects),
     total_evidence |-> Cardinality(evidences)]
report_body ==
    [total_cases |-> Cardinality(cases),
     open_cases |-> Cardinality({c \in cases : c.status = "Open"}),
     total_suspects |-> Cardinality(suspects),
     total_evidence |-> Cardinality(evidences)]

\* GET /report
report ==
    /\ phase = "serving"
    /\ Answer(Json(200, "report", report_body))

\* ------------------------------------------- requests one after the other
Next ==
    \/ main
    \/ imported
    \/ \E data \in RegisterBodies : register(data)
    \/ \E data \in CaseBodies : add_case(data)
    \/ \E case_id \in CaseIds : delete_case(case_id)
    \/ \E data \in SuspectBodies : add_suspect(data)
    \/ \E suspect_id \in SuspectIds : delete_suspect(suspect_id)
    \/ \E data \in EvidenceBodies : add_evidence(data)
    \/ \E case_id \in CaseIds : view_evidence(case_id)
    \/ \E evidence_id \in EvidenceIds : delete_evidence(evidence_id)
    \/ \E data \in PredictBodies : predict_suspect(data)
    \/ report

Spec == Init /\ [][Next]_vars

\* ------------------------- add_evidence and delete_case in two threads
\* The development server handles each request in its own thread, so the
\* two persistence calls of one handler can be separated by those of another.
add_evidence_begin(data) ==
    /\ phase = "serving" /\ ae = NoReq
    /\ IF add_evidence_lookup(data) # NoReq
       THEN Answer(add_evidence_lookup(data))
       ELSE /\ NextId(evidences) <= MaxEvidence
            /\ ae' = new_evidence(data)
            /\ UNCHANGED <<phase, store, bundle, resp, dc>>

add_evidence_end ==
    /\ ae # NoReq
    /\ add_evidence_commit(ae)
    /\ ae' = NoReq
    /\ UNCHANGED <<phase, users, cases, suspects, bundle, dc>>

delete_case_begin(case_id) ==
    /\ phase = "serving" /\ dc = NoReq
    /\ IF delete_case_lookup(case_id) # NoReq
       THEN Answer(delete_case_lookup(case_id))
       ELSE /\ dc' = [case_id |-> case_id]
            /\ UNCHANGED <<phase, store, bundle, resp, ae>>

delete_case_end ==
    /\ dc # NoReq
    /\ delete_case_commit(dc.case_id)
    /\ dc' = NoReq
    /\ UNCHANGED <<phase, users, suspects, bundle, ae>>

NextConc ==
    \/ main
    \/ imported
    \/ \E data \in CaseBodies : add_case(data)
    \/ \E data \in EvidenceBodies : add_evidence_begin(data)
    \/ add_evidence_end
    \/ \E case_id \in CaseIds : delete_case_begin(case_id)
    \/ delete_case_end
    \/ \E case_id \in CaseIds : view_evidence(case_id)
    \/ report

SpecConc == Init /\ [][NextConc]_vars

\* ------------------------------------------------- the prediction service
\* predict_suspect reads the bundle and the request and nothing else; this
\* specification calls it over every store the inserts can build.
NextPredict ==
    \/ main
    \/ imported
    \/ \E data \in RegisterBodies : register(data)
    \/ \E data \in CaseBodies : add_case(data)
    \/ \E data \in SuspectBodies : add_suspect(data)
    \/ \E data \in EvidenceBodies : add_evidence(data)
    \/ \E data \in PredictBodies : predict_suspect(data)

SpecPredict == Init /\ [][NextPredict]_vars

\* ================================================================== claims
Orphans == {e \in evidences : QueryGet(cases, e.case_id) = {}}

\* C1: a successful delete_case(c) removes Case c and exactly the Evidence
\* rows whose case_id is c, touches no other row, and right afterwards
\* view_evidence(c) is empty and report's total_evidence has dropped by the
\* number of rows removed.
C1_DeleteCaseCascades ==
    [][\A c \in CaseIds :
         (QueryGet(cases, c) # {} /\ delete_case(c)) =>
            /\ cases' = {k \in cases : k.id # c}
            /\ evidences' = {e \in evidences : e.case_id # c}
            /\ users' = users /\ suspects' = suspects
            /\ FilterByCase(c)' = {}
            /\ report_body'.total_evidence =
                 report_body.total_evidence
                   - Cardinality({e \in evidences : e.case_id = c})]_vars
C1_Witness ==
    /\ resp = Json(200, "message", "Case deleted successfully")
    /\ cases # {} /\ evidences # {}

\* C2: add_evidence with a case_id that identifies no existing Case answers
\* 404 with an error body and leaves all four tables as they were.
C2_UnknownCaseIs404 ==
    [][\A data \in EvidenceBodies :
         ( /\ add_evidence(data)
           /\ data # NoJSON /\ "case_id" \in DOMAIN data
           /\ QueryGet(cases, data["case_id"]) = {} ) =>
            /\ resp' = Json(404, "error", "Case not found")
            /\ UNCHANGED store]_vars

\* C3: with requests handled one after the other, every Evidence row refers
\* to a Case that exists.
C3_NoOrphanEvidence == Orphans = {}
C3_Witness ==
    /\ resp = Json(200, "message", "Evidence added successfully")
    /\ Cardinality(cases) = 2
    /\ \E e \in evidences : e.case_id = 2

\* C4: every stored Case has status "Open", whatever status the body of
\* add_case supplied.
C4_StatusAlwaysOpen == \A c \in cases : c.status = "Open"
C4_Witness ==
    /\ resp = Json(200, "message", "Case added successfully")
    /\ \E c \in cases : c.crime_type = None
    /\ \E c \in cases : c.crime_type = "theft"

\* C5: predict_suspect without a bundle answers "ML model not trained" for
\* every body, leaves the bundle absent and the store untouched.
C5_NoBundleNoTraining ==
    [][bundle = NoBundle =>
         \A data \in PredictBodies :
            predict_suspect(data) =>
               /\ resp' = Json(200, "error", "ML model not trained")
               /\ bundle' = NoBundle
               /\ UNCHANGED store]_vars
C5_Witness ==
    /\ resp = Json(200, "error", "ML model not trained")
    /\ bundle = NoBundle
    /\ cases # {} /\ users # {}

\* a category of the request that no row of the training data has
Unseen(data) ==
    \/ data["crime_type"] \notin Column(training_data, "crime_type")
    \/ data["location"] \notin Column(training_data, "location")
    \/ data["time_of_day"] \notin Column(training_data, "time_of_day")

\* C6: with a bundle, a prediction request with an unseen category gets an
\* error body, one with three seen categories gets a suspect_likely label,
\* and neither changes the store or the bundle.
C6_UnseenCategoryIsError ==
    [][bundle # NoBundle =>
         \A data \in PredictBodies :
            ( /\ Subscriptable(data, {"crime_type", "location", "time_of_day"})
              /\ predict_suspect(data) ) =>
               /\ IF Unseen(data)
                  THEN resp' = Json(200, "error", "Invalid input values")
                  ELSE /\ resp'.key = "suspect_likely"
                       /\ resp'.body \in Column(training_data, "suspect")
               /\ UNCHANGED <<store, bundle>>]_vars
C6_Witness ==
    /\ resp = Json(200, "error", "Invalid input values")
    /\ bundle # NoBundle
    /\ evidences # {} /\ suspects # {}

\* C7: add_case with a JSON object lacking any of the three fields creates
\* exactly one Case, with None in the missing fields, and answers success.
C7_MissingFieldsAccepted ==
    [][\A data \in CaseBodies :
         (add_case(data) /\ data # NoJSON) =>
            /\ resp' = Json(200, "message", "Case added successfully")
            /\ \E c \in cases' :
                 /\ cases' = cases \cup {c} /\ c \notin cases
                 /\ \A k \in {"crime_type", "location", "time_of_day"} :
                      k \notin DOMAIN data => c[k] = None]_vars

\* a request whose body is an object with all the required fields
WellShaped ==
    \/ \E data \in RegisterBodies :
         Subscriptable(data, {"username", "password", "role"}) /\ register(data)
    \/ \E data \in CaseBodies :
         Subscriptable(data, {"crime_type", "location", "time_of_day"})
           /\ add_case(data)
    \/ \E data \in SuspectBodies :
         Subscriptable(data, {"name", "criminal_history"}) /\ add_suspect(data)
    \/ \E data \in EvidenceBodies :
         Subscriptable(data, {"case_id", "evidence_type", "description"})
           /\ add_evidence(data)
    \/ \E data \in PredictBodies :
         Subscriptable(data, {"crime_type", "location", "time_of_day"})
           /\ predict_suspect(data)
    \/ \E id \in CaseIds : delete_case(id) \/ view_evidence(id)
    \/ \E id \in SuspectIds : delete_suspect(id)
    \/ \E id \in EvidenceIds : delete_evidence(id)
    \/ report

\* C8: a well-shaped request never ends in an unhandled fault, and one that
\* ends in an error leaves the store unchanged.
C8_NoUnhandledFault ==
    [][WellShaped =>
         /\ resp'.key # "fault"
         /\ resp'.key = "error" => UNCHANGED store]_vars

\* C9: when add_evidence and delete_case interleave at their persistence
\* calls, the state once both have ended is one a serial order gives: no
\* Evidence row refers to a Case that is gone.
C9_InterleavingIsSerial ==
    (ae = NoReq /\ dc = NoReq) => \A e \in evidences : e \notin Orphans

\* C10: report answers the current counts of the three tables, and its
\* open_cases equals its total_cases.
C10_ReportOpenEqualsTotal ==
    /\ report_body.open_cases = report_body.total_cases
    /\ resp.key = "report" =>
         /\ resp.body.open_cases = resp.body.total_cases
         /\ resp.body.total_cases = Cardinality(cases)
         /\ resp.body.total_suspects = Cardinality(suspects)
         /\ resp.body.total_evidence = Cardinality(evidences)
C10_Witness ==
    /\ resp.key = "report"
    /\ resp.body.total_cases = 2
    /\ resp.body.total_evidence >= 1

====
